---- MODULE Spec2Model ----
(***************************************************************************)
(* Model of the podcast backend: the filename sanitizer, the script        *)
(* generator client, the speech synthesis client, the audio assembler and  *)
(* the three request handlers of app/routes.py, with the output directory  *)
(* "files" as the shared disk.                                             *)
(*                                                                         *)
(* Strings are sequences of one-character strings, so that file names are  *)
(* built, compared and sanitized character by character as the code does.  *)
(***************************************************************************)
EXTENDS Integers, Sequences, FiniteSets, TLC

VARIABLES
    disk,       \* the directory "files": path -> content, for the paths that exist
    req,        \* the requests in flight: slot -> handler state
    usedIds,    \* the run identifiers uuid4 has handed out
    elevenKey,  \* ELEVENLABS_API_KEY is set (read once at import)
    geminiKey,  \* GEMINI_API_KEY is set (read once at import)
    mayFail,    \* the kinds of call the environment may fail in this run
    san,        \* a call of sanitize_filename: its argument and its result
    cmb,        \* a call of combine_audio_files in progress
    cln         \* a call of cleanup_files in progress

vars == <<disk, req, usedIds, elevenKey, geminiKey, mayFail, san, cmb, cln>>

(***************************************************************************)
(* Bounds of the model.                                                    *)
(***************************************************************************)
MaxTitleLen == 3
MaxLines == 2
MaxPaths == 3

(***************************************************************************)
(* Characters and strings.                                                 *)
(***************************************************************************)
Letters ==
    {"a","b","c","d","e","f","g","h","i","j","k","l","m",
     "n","o","p","q","r","s","t","u","v","w","x","y","z",
     "A","B","C","D","E","F","G","H","I","J","K","L","M",
     "N","O","P","Q","R","S","T","U","V","W","X","Y","Z"}

Digits == {"0","1","2","3","4","5","6","7","8","9"}

\* what str.strip() removes at both ends
Whitespace == {" ", "\t", "\n"}

\* the regular expression class \w
WordChars == Letters \cup Digits \cup {"_"}

Min(a, b) == IF a < b THEN a ELSE b

Rep(c, n) == [k \in 1..n |-> c]

RECURSIVE LStrip(_)
LStrip(s) ==
    IF s = <<>> \/ Head(s) \notin Whitespace THEN s ELSE LStrip(Tail(s))

RECURSIVE RStrip(_)
RStrip(s) ==
    IF s = <<>> \/ s[Len(s)] \notin Whitespace THEN s
    ELSE RStrip(SubSeq(s, 1, Len(s) - 1))

\* title.strip()
Strip(s) == RStrip(LStrip(s))

\* s.replace(' ', '_')
ReplaceSpaces(s) == [k \in 1..Len(s) |-> IF s[k] = " " THEN "_" ELSE s[k]]

\* re.sub(r'(?u)[^\w\-\_]', '', s)
RECURSIVE RemoveDisallowed(_)
RemoveDisallowed(s) ==
    IF Len(s) = 0 THEN <<>>
    ELSE IF Len(s) = 1
         THEN IF s[1] \in WordChars \cup {"-", "_"} THEN s ELSE <<>>
         ELSE LET h == Len(s) \div 2
              IN  RemoveDisallowed(SubSeq(s, 1, h))
                      \o RemoveDisallowed(SubSeq(s, h + 1, Len(s)))

\* s[:200]
MaxFilenameLen == 200

Truncate(s) == SubSeq(s, 1, Min(Len(s), MaxFilenameLen))

\* a sanitizer that forgets to trim before it maps the spaces
sanitize_filename_nostrip(title) ==
    Truncate(RemoveDisallowed(ReplaceSpaces(title)))

sanitize_filename(title) ==
    Truncate(RemoveDisallowed(ReplaceSpaces(Strip(title))))

(***************************************************************************)
(* The sanitizer on its own: the argument is drawn from all short strings  *)
(* over SanAlphabet, the documented example and strings around the length  *)
(* limit.                                                                  *)
(***************************************************************************)
SanAlphabet == {" ", "\t", "a", "!", "-", "_"}

RECURSIVE StringsUpTo(_, _)
StringsUpTo(A, n) ==
    IF n = 0 THEN {<<>>}
    ELSE LET S == StringsUpTo(A, n - 1)
         IN  S \cup {<<c>> \o s : c \in A, s \in {t \in S : Len(t) = n - 1}}

ExampleTitle ==
    <<"M","y"," ","P","o","d","c","a","s","t","!"," ","#","1">>

ExampleSanitized ==
    <<"M","y","_","P","o","d","c","a","s","t","_","1">>

LongTitles ==
    {pre \o Rep("a", n) \o post :
        pre \in {<<>>, <<" ">>, <<"!">>},
        n \in {MaxFilenameLen - 1, MaxFilenameLen, MaxFilenameLen + 1},
        post \in {<<>>, <<"b">>, <<" ", "b">>, <<"\n">>}}

SanInputs == StringsUpTo(SanAlphabet, MaxTitleLen) \cup {ExampleTitle} \cup LongTitles

NoSan == [input |-> <<>>, output |-> <<>>, done |-> FALSE]

NoCmb ==
    [paths |-> <<>>, k |-> 0, buf |-> <<>>, out |-> <<>>, warnings |-> <<>>,
     pc |-> "none"]

NoCln ==
    [paths |-> <<>>, failing |-> {}, before |-> <<>>, k |-> 0,
     attempted |-> <<>>, errors |-> <<>>, pc |-> "none"]

InitSan ==
    /\ disk = <<>>
    /\ req = <<>>
    /\ usedIds = {}
    /\ elevenKey = TRUE
    /\ geminiKey = TRUE
    /\ mayFail = {}
    /\ san \in [input : SanInputs, output : {<<>>}, done : {FALSE}]
    /\ cmb = NoCmb
    /\ cln = NoCln

Sanitize ==
    /\ ~san.done
    /\ san' = [san EXCEPT !.output = sanitize_filename(san.input), !.done = TRUE]
    /\ UNCHANGED <<disk, req, usedIds, elevenKey, geminiKey, mayFail, cmb, cln>>

NextSan == Sanitize

SpecSan == InitSan /\ [][NextSan]_vars

(***************************************************************************)
(* C9: for every input, sanitize_filename returns at most 200 characters,  *)
(* all of them word characters, underscores or hyphens: exactly the        *)
(* characters of the trimmed input that are allowed or are spaces, in      *)
(* their order, each space turned into an underscore, cut after the 200th; *)
(* the result may be empty, and "My Podcast! #1" gives "My_Podcast_1".     *)
(***************************************************************************)
\* the positions of the input that survive, described without recursion
KeptPositions(s) ==
    LET inner == {k \in 1..Len(s) : s[k] \notin Whitespace}
    IN  {k \in 1..Len(s) :
            /\ \E a \in inner : a <= k
            /\ \E b \in inner : k <= b
            /\ s[k] \in WordChars \cup {"-", "_", " "}}

\* C9: the sanitizer's result, character by character
SanitizerContract ==
    san.done =>
        LET s    == san.input
            out  == san.output
            kept == KeptPositions(s)
            nth(j) == CHOOSE k \in kept : Cardinality({m \in kept : m < k}) = j - 1
        IN  /\ Len(out) <= 200
            /\ \A j \in 1..Len(out) : out[j] \in WordChars \cup {"-", "_"}
            /\ Len(out) = Min(Cardinality(kept), 200)
            /\ \A j \in 1..Len(out) :
                   out[j] = IF s[nth(j)] = " " THEN "_" ELSE s[nth(j)]
            /\ (s = ExampleTitle => out = ExampleSanitized)

\* reached: the documented example has been sanitized
SanitizerWitness ==
    /\ san.done
    /\ san.input = ExampleTitle
    /\ san.output = ExampleSanitized

\* reached: a result cut at the limit, and an empty result of a non-empty input
SanitizerCutReached ==
    san.done /\ Len(san.input) > MaxFilenameLen /\ Len(san.output) = MaxFilenameLen

SanitizerEmptyReached ==
    san.done /\ san.input = <<" ", "!", "\t">> /\ san.output = <<>>

(***************************************************************************)
(* File names.                                                             *)
(***************************************************************************)
\* FILES_DIR = "files"
FILES_DIR == <<"f","i","l","e","s">>

\* os.path.join(FILES_DIR, name)
PathJoin(dir, name) == dir \o <<"/">> \o name

DigitOf(n) ==
    CASE n = 0 -> "0" [] n = 1 -> "1" [] n = 2 -> "2" [] n = 3 -> "3"
      [] n = 4 -> "4" [] n = 5 -> "5" [] n = 6 -> "6" [] n = 7 -> "7"
      [] n = 8 -> "8" [] n = 9 -> "9"

\* the decimal text of a number, as an f-string prints it
RECURSIVE Decimal(_)
Decimal(n) ==
    IF n < 10 THEN <<DigitOf(n)>> ELSE Decimal(n \div 10) \o <<DigitOf(n % 10)>>

Mp3Ext == <<".","m","p","3">>

\* identifiers handed out by a counter: decimal text, no hyphen
CounterIds == {<<"0">>, <<"1">>, <<"2">>}

\* str(uuid.uuid4()): groups of hexadecimal digits joined by hyphens, scaled
\* down from 8-4-4-4-12 to 1-1
Uuid4Values == {<<a, "-", b>> : a, b \in {"0", "1"}}

\* f"{podcast_id}_chunk_{i}.mp3" under FILES_DIR
ChunkPath(podcast_id, i) ==
    PathJoin(FILES_DIR,
             podcast_id \o <<"_","c","h","u","n","k","_">> \o Decimal(i) \o Mp3Ext)

\* f"{sanitized_title}_{podcast_id}.mp3"
FinalFilename(title, podcast_id) ==
    sanitize_filename(title) \o <<"_">> \o podcast_id \o Mp3Ext

FinalPath(title, podcast_id) == PathJoin(FILES_DIR, FinalFilename(title, podcast_id))

\* str(request.base_url)
BaseUrl == <<"h","t","t","p",":","/","/","h","/">>

\* a URL built from the title as given, not from the sanitized file name
AudioFileUrlRaw(title, podcast_id) ==
    BaseUrl \o <<"f","i","l","e","s","/">> \o title \o <<"_">> \o podcast_id \o Mp3Ext

\* f"{base_url}files/{final_audio_filename}"
AudioFileUrl(title, podcast_id) ==
    BaseUrl \o <<"f","i","l","e","s","/">> \o FinalFilename(title, podcast_id)

(***************************************************************************)
(* The disk: a function from the paths that exist to their contents.  A    *)
(* content is a sequence of audio segments, one per synthesized line.      *)
(***************************************************************************)
Exists(d, path) == path \in DOMAIN d

WriteFile(d, path, content) ==
    [q \in DOMAIN d \cup {path} |-> IF q = path THEN content ELSE d[q]]

RemoveFiles(d, paths) == [q \in DOMAIN d \ paths |-> d[q]]

Range(s) == {s[k] : k \in 1..Len(s)}

\* Python's None, and the values a condition "not x" takes for true
NoneVal == "<None>"

Falsy(x) == x = NoneVal \/ x = ""

(***************************************************************************)
(* services/gemini.py                                                      *)
(***************************************************************************)
DetailGeminiKey == "GEMINI_API_KEY is not set."
DetailGeminiCall == "Error calling Gemini API"
DetailGeminiFormat == "Error processing Gemini response"

Failure(detail) == [ok |-> FALSE, detail |-> detail]

\* generate_script: `key` is GEMINI_API_KEY being set, `reply` what the remote
\* service answers.  The result is the parsed object, or the HTTPException.
generate_script(key, reply) ==
    IF ~key THEN Failure(DetailGeminiKey)
    ELSE IF reply.net # "ok" THEN Failure(DetailGeminiCall)
    ELSE IF reply.envelope # "ok" THEN Failure(DetailGeminiFormat)
    ELSE IF reply.json # "ok" THEN Failure(DetailGeminiFormat)
    ELSE IF ~reply.isdict \/ ~reply.hasTitle \/ ~reply.hasScript
         THEN Failure(DetailGeminiFormat)
    ELSE [ok |-> TRUE, detail |-> ""]

(***************************************************************************)
(* services/elevenlabs.py                                                  *)
(***************************************************************************)
DetailElevenKey == "ELEVENLABS_API_KEY is not set."
DetailElevenCall == "Error calling ElevenLabs API"

\* the audio the remote service returns for a line spoken by a voice
SynthAudio(line, voice_id) == <<[text |-> line, voice |-> voice_id]>>

\* a client that calls the service without looking at the credential
generate_audio_for_line_unchecked(line, voice_id, output_path, key, outcome, d) ==
    CASE outcome = "ok" ->
           [ok |-> TRUE, detail |-> "",
            disk |-> WriteFile(d, output_path, SynthAudio(line, voice_id)),
            called |-> TRUE]
      [] outcome = "upstream" ->
           [ok |-> FALSE, detail |-> DetailElevenCall, disk |-> d, called |-> TRUE]
      [] outcome = "stream" ->
           [ok |-> FALSE, detail |-> DetailElevenCall,
            disk |-> WriteFile(d, output_path, <<>>), called |-> TRUE]

\* generate_audio_for_line: `outcome` is what the remote call does: "ok", "upstream"
\* (the post fails or answers a non-success status), "stream" (the body breaks
\* off after the output file was opened).  The result holds the disk afterwards
\* and whether the remote service was called.
generate_audio_for_line(line, voice_id, output_path, key, outcome, d) ==
    IF ~key
    THEN [ok |-> FALSE, detail |-> DetailElevenKey, disk |-> d, called |-> FALSE]
    ELSE CASE outcome = "ok" ->
                [ok |-> TRUE, detail |-> "",
                 disk |-> WriteFile(d, output_path, SynthAudio(line, voice_id)),
                 called |-> TRUE]
           [] outcome = "upstream" ->
                [ok |-> FALSE, detail |-> DetailElevenCall, disk |-> d, called |-> TRUE]
           [] outcome = "stream" ->
                [ok |-> FALSE, detail |-> DetailElevenCall,
                 disk |-> WriteFile(d, output_path, <<>>), called |-> TRUE]

(***************************************************************************)
(* services/audio.py                                                       *)
(***************************************************************************)
DetailCombine == "Failed to combine audio files"

\* a turn that puts the segment in front of the buffer
CombineVisitPrepend(buf, path, d) == IF Exists(d, path) THEN d[path] \o buf ELSE buf

\* one turn of the loop of combine_audio_files: the buffer after visiting path
CombineVisit(buf, path, d) == IF Exists(d, path) THEN buf \o d[path] ELSE buf

\* the whole loop, from buffer buf over the paths left
RECURSIVE CombinedAudio(_, _, _)
CombinedAudio(buf, paths, d) ==
    IF paths = <<>> THEN buf
    ELSE CombinedAudio(CombineVisit(buf, Head(paths), d), Tail(paths), d)

\* combine_audio_files: `outcome` is "ok" or "fail" (pydub throws while decoding)
combine_audio_files(file_paths, output_path, outcome, d) ==
    IF outcome = "ok"
    THEN [ok |-> TRUE, detail |-> "",
          disk |-> WriteFile(d, output_path, CombinedAudio(<<>>, file_paths, d))]
    ELSE [ok |-> FALSE, detail |-> DetailCombine, disk |-> d]

\* a cleanup whose loop stops one path short
cleanup_files_keep_last(file_paths, failing, d) ==
    RemoveFiles(d, {file_paths[k] : k \in 1..(Len(file_paths) - 1)})

\* a turn of a loop that sits inside the try block: the first OSError ends it
CleanupVisitAbort(st, path, failing) ==
    IF st.errors # <<>> \/ ~Exists(st.disk, path) THEN st
    ELSE IF path \in failing
         THEN [st EXCEPT !.attempted = Append(@, path), !.errors = Append(@, path)]
         ELSE [st EXCEPT !.disk = RemoveFiles(@, {path}),
                         !.attempted = Append(@, path)]

\* one turn of the loop of cleanup_files: os.remove is called if the path
\* exists, and when it raises OSError the error is printed and the loop goes on;
\* `failing` are the paths on which os.remove raises OSError
CleanupVisit(st, path, failing) ==
    IF ~Exists(st.disk, path) THEN st
    ELSE IF path \in failing
         THEN [st EXCEPT !.attempted = Append(@, path), !.errors = Append(@, path)]
         ELSE [st EXCEPT !.disk = RemoveFiles(@, {path}),
                         !.attempted = Append(@, path)]

\* the whole loop, from state st over the paths left
RECURSIVE CleanupRun(_, _, _)
CleanupRun(st, paths, failing) ==
    IF paths = <<>> THEN st
    ELSE CleanupRun(CleanupVisit(st, Head(paths), failing), Tail(paths), failing)

\* cleanup_files: the disk it leaves
cleanup_files(file_paths, failing, d) ==
    CleanupRun([disk |-> d, attempted |-> <<>>, errors |-> <<>>],
               file_paths, failing).disk

\* base64.b64encode(content).decode('utf-8')
B64(content) == [b64 |-> content]

(***************************************************************************)
(* routes.py: the requests and their handlers.                             *)
(***************************************************************************)
Reqs == {1, 2}

AllFaults == {"synth", "combine", "remove"}

NoReply ==
    [net |-> "ok", envelope |-> "ok", json |-> "ok", isdict |-> TRUE,
     hasTitle |-> TRUE, hasScript |-> TRUE, scriptKind |-> "list",
     title |-> <<>>, script |-> <<>>]

NoResponse ==
    [code |-> 0, detail |-> "", keys |-> {}, audio_file_url |-> <<>>,
     audio_base64 |-> B64(<<>>), title |-> <<>>, script |-> <<>>]

NoReq ==
    [kind |-> "none", pc |-> "none", title |-> <<>>, script |-> <<>>,
     scriptKind |-> "list", presenters |-> <<>>, return_base64 |-> FALSE,
     reply |-> NoReply, podcast_id |-> <<>>, i |-> 0,
     audio_chunks_paths |-> <<>>, final_audio_path |-> <<>>,
     synth_calls |-> <<>>, log |-> {}, response |-> NoResponse]

\* POST /generate-script
ScriptRequest(reply) ==
    [NoReq EXCEPT !.kind = "script", !.pc = "recv", !.reply = reply]

\* POST /generate-audio-from-script
AudioFromScriptRequest(title, script, presenters, return_base64) ==
    [NoReq EXCEPT !.kind = "audio", !.pc = "setup", !.title = title,
                  !.script = script, !.presenters = presenters,
                  !.return_base64 = return_base64]

\* POST /generate-podcast
PodcastRequest(reply, presenters, return_base64) ==
    [NoReq EXCEPT !.kind = "podcast", !.pc = "recv", !.reply = reply,
                  !.presenters = presenters, !.return_base64 = return_base64]

DetailUnexpected == "An unexpected error occurred"
DetailValidation == "Internal Server Error"

\* raise HTTPException(status_code=500, detail=...)
ErrorResponse(detail) == [NoResponse EXCEPT !.code = 500, !.detail = detail]

\* a lookup that falls back to the first presenter's voice
VoiceMapGetDefault(presenters, name) ==
    LET hits == {k \in 1..Len(presenters) : presenters[k].name = name}
    IN  IF hits = {} THEN presenters[1].voice_id
        ELSE presenters[CHOOSE k \in hits : \A m \in hits : m <= k].voice_id

\* voice_map = {p.name: p.voice_id for p in presenters}; voice_map.get(name)
VoiceMapGet(presenters, name) ==
    LET hits == {k \in 1..Len(presenters) : presenters[k].name = name}
    IN  IF hits = {} THEN NoneVal
        ELSE presenters[CHOOSE k \in hits : \A m \in hits : m <= k].voice_id

\* a guard with its second negation lost
PodcastLineMissingInverted(speaker_name, dialogue) ==
    Falsy(speaker_name) \/ ~Falsy(dialogue)

\* generate_podcast: if not speaker_name or not dialogue: continue
PodcastLineMissing(speaker_name, dialogue) ==
    Falsy(speaker_name) \/ Falsy(dialogue)

\* whether the handler of this kind passes over the line without a voice lookup
LineMissing(kind, line) ==
    kind = "podcast" /\ PodcastLineMissing(line.speaker, line.line)

\* a handler that removes its chunks when a line fails
DiskAfterErrorCleaned(d, audio_chunks_paths) ==
    RemoveFiles(d, Range(audio_chunks_paths))

\* except HTTPException: raise e / except Exception: raise HTTPException(500):
\* the disk is left as it is
DiskAfterError(d, audio_chunks_paths) == d

Done(r, response) == [req EXCEPT ![r].pc = "done", ![r].response = response]

\* generate_script_only
ScriptOnly(r) ==
    /\ req[r].kind = "script" /\ req[r].pc = "recv"
    /\ LET res == generate_script(geminiKey, req[r].reply)
       IN  req' = Done(r,
                IF ~res.ok THEN ErrorResponse(res.detail)
                ELSE IF req[r].reply.scriptKind # "list"
                     THEN ErrorResponse(DetailValidation)
                     ELSE [NoResponse EXCEPT !.code = 200,
                                             !.keys = {"title", "script"},
                                             !.title = req[r].reply.title,
                                             !.script = req[r].reply.script])
    /\ UNCHANGED <<disk, usedIds, elevenKey, geminiKey, mayFail, san, cmb, cln>>

\* generate_podcast, step 1: script_data = gemini.generate_script(...)
CallGemini(r) ==
    /\ req[r].kind = "podcast" /\ req[r].pc = "recv"
    /\ LET res == generate_script(geminiKey, req[r].reply)
       IN  req' = IF ~res.ok THEN Done(r, ErrorResponse(res.detail))
                  ELSE [req EXCEPT ![r].pc = "setup",
                                   ![r].title = req[r].reply.title,
                                   ![r].script = req[r].reply.script,
                                   ![r].scriptKind = req[r].reply.scriptKind]
    /\ UNCHANGED <<disk, usedIds, elevenKey, geminiKey, mayFail, san, cmb, cln>>

\* audio_chunks_paths = []; podcast_id = str(uuid.uuid4())
Setup(r) ==
    /\ req[r].pc = "setup"
    /\ \E id \in Uuid4Values \ usedIds :
          /\ req' = [req EXCEPT ![r].pc = "loop", ![r].podcast_id = id,
                                ![r].i = 0, ![r].audio_chunks_paths = <<>>]
          /\ usedIds' = usedIds \cup {id}
    /\ UNCHANGED <<disk, elevenKey, geminiKey, mayFail, san, cmb, cln>>

\* generate_podcast: for i, line in enumerate(script), script not a list of
\* objects: TypeError or AttributeError, caught as Exception
LoopNotIterable(r) ==
    /\ req[r].pc = "loop" /\ req[r].scriptKind # "list"
    /\ req' = Done(r, ErrorResponse(DetailUnexpected))
    /\ disk' = DiskAfterError(disk, req[r].audio_chunks_paths)
    /\ UNCHANGED <<usedIds, elevenKey, geminiKey, mayFail, san, cmb, cln>>

CurrentLine(r) == req[r].script[req[r].i + 1]

InLoop(r) ==
    /\ req[r].pc = "loop" /\ req[r].scriptKind = "list"
    /\ req[r].i < Len(req[r].script)

\* a turn of the loop that ends in `continue`
LoopSkip(r) ==
    /\ InLoop(r)
    /\ LET line == CurrentLine(r)
           missing == LineMissing(req[r].kind, line)
           voice_id == VoiceMapGet(req[r].presenters, line.speaker)
       IN  /\ missing \/ Falsy(voice_id)
           /\ req' = [req EXCEPT
                        ![r].i = @ + 1,
                        ![r].log = IF missing THEN @
                                   ELSE @ \cup {<<"skip", req[r].i>>}]
    /\ UNCHANGED <<disk, usedIds, elevenKey, geminiKey, mayFail, san, cmb, cln>>

SynthOutcomes == {"ok"} \cup (IF "synth" \in mayFail THEN {"upstream", "stream"} ELSE {})

\* a turn of the loop that synthesizes the line
LoopSynth(r) ==
    /\ InLoop(r)
    /\ LET line == CurrentLine(r)
           voice_id == VoiceMapGet(req[r].presenters, line.speaker)
           chunk_path == ChunkPath(req[r].podcast_id, req[r].i)
       IN  /\ ~LineMissing(req[r].kind, line) /\ ~Falsy(voice_id)
           /\ \E outcome \in SynthOutcomes :
                LET res == generate_audio_for_line(line.line, voice_id, chunk_path,
                                                   elevenKey, outcome, disk)
                    calls == IF res.called
                             THEN Append(req[r].synth_calls,
                                         [text |-> line.line, voice_id |-> voice_id,
                                          index |-> req[r].i])
                             ELSE req[r].synth_calls
                IN  IF res.ok
                    THEN /\ disk' = res.disk
                         /\ req' = [req EXCEPT
                                      ![r].i = @ + 1,
                                      ![r].synth_calls = calls,
                                      ![r].audio_chunks_paths = Append(@, chunk_path)]
                    ELSE /\ disk' = DiskAfterError(res.disk, req[r].audio_chunks_paths)
                         /\ req' = [Done(r, ErrorResponse(res.detail))
                                      EXCEPT ![r].synth_calls = calls]
    /\ UNCHANGED <<usedIds, elevenKey, geminiKey, mayFail, san, cmb, cln>>

CombineOutcomes == {"ok"} \cup (IF "combine" \in mayFail THEN {"fail"} ELSE {})

\* sanitize the title, name the final file, combine the chunks into it
Combine(r) ==
    /\ req[r].pc = "loop" /\ req[r].scriptKind = "list"
    /\ req[r].i = Len(req[r].script)
    /\ LET final_audio_path == FinalPath(req[r].title, req[r].podcast_id)
       IN  \E outcome \in CombineOutcomes :
             LET res == combine_audio_files(req[r].audio_chunks_paths,
                                            final_audio_path, outcome, disk)
             IN  IF res.ok
                 THEN /\ disk' = res.disk
                      /\ req' = [req EXCEPT ![r].pc = "cleanup",
                                   ![r].final_audio_path = final_audio_path]
                 ELSE /\ disk' = DiskAfterError(res.disk, req[r].audio_chunks_paths)
                      /\ req' = Done(r, ErrorResponse(res.detail))
    /\ UNCHANGED <<usedIds, elevenKey, geminiKey, mayFail, san, cmb, cln>>

\* the sets of paths on which os.remove may raise
Failing(paths) == IF "remove" \in mayFail THEN SUBSET Range(paths) ELSE {{}}

CleanupErrors(paths, failing, d) ==
    {<<"cleanup_error", q>> : q \in {q \in Range(paths) : Exists(d, q) /\ q \in failing}}

\* audio.cleanup_files(audio_chunks_paths)
CleanupChunks(r) ==
    /\ req[r].pc = "cleanup"
    /\ \E failing \in Failing(req[r].audio_chunks_paths) :
          /\ disk' = cleanup_files(req[r].audio_chunks_paths, failing, disk)
          /\ req' = [req EXCEPT
                       ![r].pc = "respond",
                       ![r].log = @ \cup CleanupErrors(req[r].audio_chunks_paths,
                                                       failing, disk)]
    /\ UNCHANGED <<usedIds, elevenKey, geminiKey, mayFail, san, cmb, cln>>

\* response_data = {"status": "success"} (with title and script in generate_podcast)
SuccessResponse(r) ==
    [NoResponse EXCEPT
        !.code = 200,
        !.keys = IF req[r].kind = "podcast" THEN {"title", "status", "script"}
                 ELSE {"status"},
        !.title = IF req[r].kind = "podcast" THEN req[r].title ELSE <<>>,
        !.script = IF req[r].kind = "podcast" THEN req[r].script ELSE <<>>]

\* return_base64 false: the response names the file's URL
RespondUrl(r) ==
    /\ req[r].pc = "respond" /\ ~req[r].return_base64
    /\ req' = Done(r, [SuccessResponse(r) EXCEPT
                         !.keys = @ \cup {"audio_file_url"},
                         !.audio_file_url =
                             AudioFileUrl(req[r].title, req[r].podcast_id)])
    /\ UNCHANGED <<disk, usedIds, elevenKey, geminiKey, mayFail, san, cmb, cln>>

\* return_base64 true: open the final file, read and encode it
EncodeFinal(r) ==
    /\ req[r].pc = "respond" /\ req[r].return_base64
    /\ IF Exists(disk, req[r].final_audio_path)
       THEN req' = [req EXCEPT
                      ![r].pc = "encoded",
                      ![r].response =
                          [SuccessResponse(r) EXCEPT
                              !.code = 0,
                              !.keys = @ \cup {"audio_base64"},
                              !.audio_base64 = B64(disk[req[r].final_audio_path])]]
       ELSE req' = Done(r, ErrorResponse(DetailUnexpected))
    /\ disk' = IF Exists(disk, req[r].final_audio_path) THEN disk
               ELSE DiskAfterError(disk, req[r].audio_chunks_paths)
    /\ UNCHANGED <<usedIds, elevenKey, geminiKey, mayFail, san, cmb, cln>>

\* audio.cleanup_files([final_audio_path]); return response_data
CleanupFinal(r) ==
    /\ req[r].pc = "encoded"
    /\ \E failing \in Failing(<<req[r].final_audio_path>>) :
          /\ disk' = cleanup_files(<<req[r].final_audio_path>>, failing, disk)
          /\ req' = [req EXCEPT
                       ![r].pc = "done",
                       ![r].response.code = 200,
                       ![r].log = @ \cup CleanupErrors(<<req[r].final_audio_path>>,
                                                       failing, disk)]
    /\ UNCHANGED <<usedIds, elevenKey, geminiKey, mayFail, san, cmb, cln>>

\* the steps of a request whose script is a list of lines that are all spoken
\* by a presenter with a voice
SpokenStep(r) ==
    \/ CallGemini(r)
    \/ Setup(r)
    \/ LoopSynth(r)
    \/ Combine(r)
    \/ CleanupChunks(r)
    \/ RespondUrl(r)
    \/ EncodeFinal(r)
    \/ CleanupFinal(r)

\* the steps of a request whose script is a list of lines
PipelineStep(r) == LoopSkip(r) \/ SpokenStep(r)

Next ==
    \E r \in Reqs :
        \/ ScriptOnly(r)
        \/ LoopNotIterable(r)
        \/ PipelineStep(r)

\* no script-only request, and every generated script a list
NextPipeline == \E r \in Reqs : PipelineStep(r)

\* moreover no line is passed over
NextSpoken == \E r \in Reqs : SpokenStep(r)

(***************************************************************************)
(* The inputs of the requests.                                             *)
(***************************************************************************)
Speakers == {"Ana", "Zed"}

Dialogues == {"hi", ""}

Lines == [speaker : Speakers, line : Dialogues]

RECURSIVE SeqsUpTo(_, _)
SeqsUpTo(S, n) ==
    IF n = 0 THEN {<<>>}
    ELSE LET T == SeqsUpTo(S, n - 1)
         IN  T \cup {Append(s, x) : s \in {u \in T : Len(u) = n - 1}, x \in S}

Scripts == SeqsUpTo(Lines, MaxLines)

Presenter(name, voice_id) == [name |-> name, voice_id |-> voice_id]

\* two presenters: Ana with or without a voice, Luis; or two entries named Ana
PresenterLists ==
    {<<Presenter("Ana", v), Presenter("Luis", "v2")>> : v \in {"v1", ""}}
        \cup {<<Presenter("Ana", "v1"), Presenter("Ana", "v3")>>}

TitleSample == {<<" ", "!">>, <<"a", " ", "b">>}

GoodReplies ==
    {[NoReply EXCEPT !.title = t, !.script = s] : t \in TitleSample, s \in Scripts}

BadReplies ==
    {[NoReply EXCEPT !.net = "neterr"],
     [NoReply EXCEPT !.net = "http500"],
     [NoReply EXCEPT !.envelope = "nokey"],
     [NoReply EXCEPT !.json = "invalid"],
     [NoReply EXCEPT !.isdict = FALSE],
     [NoReply EXCEPT !.hasTitle = FALSE],
     [NoReply EXCEPT !.hasScript = FALSE],
     [NoReply EXCEPT !.scriptKind = "str"],
     [NoReply EXCEPT !.scriptKind = "null"]}

Replies == GoodReplies \cup BadReplies

Requests ==
    {ScriptRequest(reply) : reply \in Replies}
        \cup {AudioFromScriptRequest(t, s, p, b) :
                t \in TitleSample, s \in Scripts, p \in PresenterLists, b \in BOOLEAN}
        \cup {PodcastRequest(reply, p, b) :
                reply \in Replies, p \in PresenterLists, b \in BOOLEAN}

\* one request, any input, any credential configuration, every call may fail
Init ==
    /\ disk = <<>>
    /\ usedIds = {}
    /\ elevenKey \in BOOLEAN
    /\ geminiKey \in BOOLEAN
    /\ mayFail = AllFaults
    /\ san = NoSan
    /\ cmb = NoCmb
    /\ cln = NoCln
    /\ req \in {[r \in Reqs |-> IF r = 1 THEN q ELSE NoReq] : q \in Requests}

Spec == Init /\ [][Next]_vars

(***************************************************************************)
(* Vocabulary of the properties.                                           *)
(***************************************************************************)
AudioReqs == {r \in Reqs : req[r].kind = "audio"}

PipelineReqs == {r \in Reqs : req[r].kind \in {"audio", "podcast"}}

\* the speaker is the name of one of the presenters
IsPresenter(presenters, speaker) ==
    \E k \in 1..Len(presenters) : presenters[k].name = speaker

\* the speaker is the name of a presenter, and the entry of that name that the
\* map keeps (the last one) has a voice_id that is not empty
HasVoice(presenters, speaker) ==
    \E k \in 1..Len(presenters) :
        /\ presenters[k].name = speaker
        /\ presenters[k].voice_id # ""
        /\ \A m \in (k + 1)..Len(presenters) : presenters[m].name # speaker

Succeeded(r) == req[r].pc = "done" /\ req[r].response.code = 200

Failed(r) == req[r].pc = "done" /\ req[r].response.code = 500

NoCleanupError(r) == \A e \in req[r].log : e[1] # "cleanup_error"

ChunksOnDisk(r) == {p \in Range(req[r].audio_chunks_paths) : Exists(disk, p)}

(***************************************************************************)
(* C2: in audio-from-script a line whose speaker is not a key of the       *)
(* presenter-to-voice map causes no synthesis call and no chunk file, is   *)
(* not in the list given to the assembler, and raises no error: the        *)
(* request stops with an error only where a call failed, the lines after   *)
(* it are still processed, and there are never more chunks than lines.     *)
(***************************************************************************)
\* C2: no call, no chunk, no error for a line of an unknown speaker
UnmatchedLineSkipped ==
    \A r \in AudioReqs :
        LET q == req[r]
            unmatched == {k \in 0..(Len(q.script) - 1) :
                             ~IsPresenter(q.presenters, q.script[k + 1].speaker)}
        IN  /\ \A c \in Range(q.synth_calls) : c.index \notin unmatched
            /\ \A k \in unmatched :
                   /\ ~Exists(disk, ChunkPath(q.podcast_id, k))
                   /\ ChunkPath(q.podcast_id, k) \notin Range(q.audio_chunks_paths)
                   /\ (q.i > k => <<"skip", k>> \in q.log)
            /\ Len(q.audio_chunks_paths) <= Len(q.script)
            /\ (Failed(r) =>
                   q.response.detail \in {DetailElevenKey, DetailElevenCall, DetailCombine})
            /\ (Succeeded(r) =>
                   /\ q.i = Len(q.script)
                   /\ \A k \in 0..(Len(q.script) - 1) :
                          HasVoice(q.presenters, q.script[k + 1].speaker)
                              => \E c \in Range(q.synth_calls) : c.index = k)

\* reached: a request whose first line has an unknown speaker and whose second
\* line was synthesized has ended with success
UnmatchedLineSkippedWitness ==
    \E r \in AudioReqs :
        /\ Succeeded(r)
        /\ Len(req[r].script) = 2
        /\ ~IsPresenter(req[r].presenters, req[r].script[1].speaker)
        /\ Len(req[r].audio_chunks_paths) = 1
        /\ req[r].synth_calls[1].index = 1

(***************************************************************************)
(* C10: when the synthesis call for line k fails, the request ends in a    *)
(* 500 error, no later line is synthesized, no final file is created, and  *)
(* every chunk file created for the lines before k is still on disk.       *)
(***************************************************************************)
SynthFailed(r) ==
    /\ req[r].pc = "done"
    /\ req[r].response.detail \in {DetailElevenKey, DetailElevenCall}

\* C10: after a failed synthesis call the earlier chunks stay and nothing follows
ChunksOrphanedOnFailure ==
    \A r \in PipelineReqs :
        SynthFailed(r) =>
            LET q == req[r]
            IN  /\ q.response.code = 500
                /\ q.i < Len(q.script)
                /\ \A c \in Range(q.synth_calls) : c.index <= q.i
                /\ \A p \in Range(q.audio_chunks_paths) : Exists(disk, p)
                /\ \A n \in 1..Len(q.audio_chunks_paths) :
                       \E k \in 0..(q.i - 1) :
                           /\ q.audio_chunks_paths[n] = ChunkPath(q.podcast_id, k)
                           /\ disk[ChunkPath(q.podcast_id, k)] # <<>>
                /\ Cardinality(ChunksOnDisk(r)) = Len(q.audio_chunks_paths)
                /\ ~Exists(disk, FinalPath(q.title, q.podcast_id))
                /\ q.final_audio_path = <<>>

\* reached: the call for the second line failed after the first line's chunk
\* was written; the request has ended and the chunk is on disk
ChunksOrphanedWitness ==
    \E r \in PipelineReqs :
        /\ SynthFailed(r)
        /\ req[r].i = 1
        /\ Len(req[r].audio_chunks_paths) = 1
        /\ Exists(disk, ChunkPath(req[r].podcast_id, 0))

(***************************************************************************)
(* C1: an audio-from-script request with N lines, all calls succeeding:    *)
(* N chunk files are created, all N are deleted before the response, and   *)
(* at response time one final file of the run is on disk when              *)
(* return_base64 is false and none when it is true.                        *)
(***************************************************************************)
\* what the request has done, for a request that is to make N chunks
ChunkLifecycle(r) ==
    LET q == req[r]
        N == Len(q.script)
        final == FinalPath(q.title, q.podcast_id)
    IN  /\ (q.pc \in {"cleanup", "respond", "encoded"} \/ Succeeded(r) =>
               /\ Len(q.audio_chunks_paths) = N
               /\ Cardinality(Range(q.audio_chunks_paths)) = N
               /\ Len(q.synth_calls) = N)
        /\ (q.pc = "cleanup" => Cardinality(ChunksOnDisk(r)) = N)
        /\ (Succeeded(r) /\ NoCleanupError(r) =>
               /\ ChunksOnDisk(r) = {}
               /\ DOMAIN disk = IF q.return_base64 THEN {} ELSE {final})

\* C1 as stated: the lifecycle, whenever every speaker is the name of one of the
\* presenters
ChunkLifecycleNamedSpeakers ==
    \A r \in AudioReqs :
        (\A k \in 1..Len(req[r].script) :
              IsPresenter(req[r].presenters, req[r].script[k].speaker))
            => ChunkLifecycle(r)

\* what holds of the code instead of C1: the lifecycle, when every speaker is
\* the name of a presenter whose voice_id is not empty
ChunkLifecycleVoicedSpeakers ==
    \A r \in AudioReqs :
        (\A k \in 1..Len(req[r].script) :
              HasVoice(req[r].presenters, req[r].script[k].speaker))
            => ChunkLifecycle(r)

\* reached: a two-line request for a URL has answered; its chunks are gone and
\* its final file is on disk
ChunkLifecycleWitness ==
    \E r \in AudioReqs :
        /\ Succeeded(r) /\ NoCleanupError(r)
        /\ ~req[r].return_base64
        /\ Len(req[r].script) = 2
        /\ Len(req[r].audio_chunks_paths) = 2
        /\ DOMAIN disk = {req[r].final_audio_path}

(***************************************************************************)
(* C4: the final file is created by the assembler after the last chunk,    *)
(* and is on disk until it has been read and encoded (return_base64 true:  *)
(* it is then deleted, the response has audio_base64 and no                *)
(* audio_file_url) or until the response is returned (return_base64 false: *)
(* the response has audio_file_url naming the file and no audio_base64,    *)
(* the file is on disk); it is never deleted before it is read.            *)
(***************************************************************************)
FinalFileLifecycle(r, deleted_for_sure) ==
    LET q == req[r]
        final == FinalPath(q.title, q.podcast_id)
    IN  /\ (q.pc \in {"setup", "loop"} => ~Exists(disk, final))
        /\ (q.pc \in {"cleanup", "respond", "encoded"} =>
               /\ q.i = Len(q.script)
               /\ q.final_audio_path = final
               /\ Exists(disk, final))
        /\ (q.pc = "encoded" => q.response.audio_base64 = B64(disk[final]))
        /\ (Succeeded(r) /\ q.return_base64 =>
               /\ "audio_base64" \in q.response.keys
               /\ "audio_file_url" \notin q.response.keys
               /\ IF deleted_for_sure THEN ~Exists(disk, final)
                  ELSE Exists(disk, final) <=> <<"cleanup_error", final>> \in q.log)
        /\ (Succeeded(r) /\ ~q.return_base64 =>
               /\ "audio_file_url" \in q.response.keys
               /\ "audio_base64" \notin q.response.keys
               /\ q.response.audio_file_url =
                      BaseUrl \o SubSeq(final, 1, Len(final))
               /\ Exists(disk, final))

\* C4 as stated: after the read the final file is deleted
FinalFileDeletedAfterRead ==
    \A r \in PipelineReqs : FinalFileLifecycle(r, TRUE)

\* C4 amended: after the read the final file is deleted unless its removal
\* fails, in which case it stays on disk and the failure is logged
FinalFileRemovalAttemptedAfterRead ==
    \A r \in PipelineReqs : FinalFileLifecycle(r, FALSE)

\* reached: a request for inline audio has answered with the encoded audio of
\* its two lines and its final file is gone
FinalFileWitness ==
    \E r \in PipelineReqs :
        /\ Succeeded(r) /\ req[r].return_base64
        /\ Len(req[r].response.audio_base64.b64) = 2
        /\ ~Exists(disk, req[r].final_audio_path)

(***************************************************************************)
(* C7: a request made while the synthesis credential is not configured     *)
(* ends in a 500 error, with no call to the synthesis service and no       *)
(* chunk or final file created.                                            *)
(***************************************************************************)
\* the handler of the request has a line to synthesize
ToSynthesize(r) ==
    {k \in 1..Len(req[r].script) :
        /\ HasVoice(req[r].presenters, req[r].script[k].speaker)
        /\ req[r].kind = "podcast" =>
               req[r].script[k].speaker # "" /\ req[r].script[k].line # ""}

\* C7 as stated: without the credential every request ends in a 500 error with
\* no synthesis call and no file
MissingKeyAlwaysFatal ==
    ~elevenKey =>
        \A r \in PipelineReqs :
            /\ req[r].synth_calls = <<>>
            /\ DOMAIN disk = {}
            /\ (req[r].pc = "done" => req[r].response.code = 500)

\* C7 amended: without the credential no request calls the synthesis service or
\* creates a chunk file; a request whose script has a line to synthesize ends in
\* a 500 error at the first such line, with no final file created
MissingKeyFatalAtFirstSynthesis ==
    ~elevenKey =>
        \A r \in PipelineReqs :
            /\ req[r].synth_calls = <<>>
            /\ req[r].audio_chunks_paths = <<>>
            /\ \A k \in 0..MaxLines : ~Exists(disk, ChunkPath(req[r].podcast_id, k))
            /\ (req[r].pc \in {"loop", "cleanup", "respond", "encoded", "done"}
                  /\ req[r].scriptKind = "list" /\ ToSynthesize(r) # {}
                  /\ ~(Failed(r) /\ req[r].response.detail
                           \in {DetailGeminiKey, DetailGeminiCall, DetailGeminiFormat}) =>
                     /\ DOMAIN disk = {}
                     /\ req[r].pc \in {"loop", "done"}
                     /\ (req[r].pc = "done" =>
                            /\ req[r].response.code = 500
                            /\ req[r].response.detail = DetailElevenKey
                            /\ req[r].i + 1 \in ToSynthesize(r)
                            /\ \A k \in ToSynthesize(r) : req[r].i + 1 <= k))

\* reached: without the credential, a request stopped at its second line, the
\* first to be synthesized
MissingKeyWitness ==
    \E r \in PipelineReqs :
        /\ ~elevenKey
        /\ Failed(r)
        /\ req[r].response.detail = DetailElevenKey
        /\ req[r].i = 1

(***************************************************************************)
(* C6: generate_script returns a result only when the remote call          *)
(* succeeded and the reply is a JSON object with a title key and a script  *)
(* key whose value is a list; it fails with a response-format error when   *)
(* the reply cannot be parsed, lacks title or script, or script is not a   *)
(* list, and with an upstream error on a network failure or a non-success  *)
(* status.                                                                 *)
(***************************************************************************)
WellFormedReply(reply) ==
    /\ reply.envelope = "ok" /\ reply.json = "ok" /\ reply.isdict
    /\ reply.hasTitle /\ reply.hasScript /\ reply.scriptKind = "list"

\* the handler of the full pipeline has called generate_script
ScriptGenerated(r) == req[r].kind = "podcast" /\ req[r].pc # "recv"

GeminiError(r, detail) == Failed(r) /\ req[r].response.detail = detail

\* C6 as stated: a result only for a well-formed reply with a list for script; a
\* response-format error for every other reply that arrived; an upstream error
\* when none arrived
ScriptReplyValidated ==
    \A r \in Reqs :
        ScriptGenerated(r) /\ geminiKey =>
            LET reply == req[r].reply
                returned == ~(\E d \in {DetailGeminiKey, DetailGeminiCall,
                                        DetailGeminiFormat} : GeminiError(r, d))
            IN  /\ returned => reply.net = "ok" /\ WellFormedReply(reply)
                /\ reply.net # "ok" => GeminiError(r, DetailGeminiCall)
                /\ reply.net = "ok" /\ ~WellFormedReply(reply)
                       => GeminiError(r, DetailGeminiFormat)

(***************************************************************************)
(* The assembler on its own: combine_audio_files over any list of up to    *)
(* MaxPaths paths drawn from three chunk files, any of which may be        *)
(* missing, one turn of its loop at a time.                                *)
(***************************************************************************)
PathA == PathJoin(FILES_DIR, <<"a">> \o Mp3Ext)
PathB == PathJoin(FILES_DIR, <<"b">> \o Mp3Ext)
PathC == PathJoin(FILES_DIR, <<"c">> \o Mp3Ext)
PathOut == PathJoin(FILES_DIR, <<"o", "u", "t">> \o Mp3Ext)

ChunkFiles == {PathA, PathB, PathC}

ChunkContent(path) ==
    CASE path = PathA -> SynthAudio("hi", "v1")
      [] path = PathB -> SynthAudio("yo", "v2") \o SynthAudio("ok", "v2")
      [] path = PathC -> <<>>

InitCombine ==
    /\ disk \in {[q \in present |-> ChunkContent(q)] : present \in SUBSET ChunkFiles}
    /\ cmb \in [paths : SeqsUpTo(ChunkFiles, MaxPaths), k : {0}, buf : {<<>>},
                out : {PathOut}, warnings : {<<>>}, pc : {"loop"}]
    /\ req = <<>>
    /\ usedIds = {}
    /\ elevenKey = TRUE
    /\ geminiKey = TRUE
    /\ mayFail = {}
    /\ san = NoSan
    /\ cln = NoCln

\* for path in file_paths: one turn
CombineTurn ==
    /\ cmb.pc = "loop" /\ cmb.k < Len(cmb.paths)
    /\ LET path == cmb.paths[cmb.k + 1]
       IN  cmb' = [cmb EXCEPT
                     !.k = @ + 1,
                     !.buf = CombineVisit(cmb.buf, path, disk),
                     !.warnings = IF Exists(disk, path) THEN @ ELSE Append(@, path)]
    /\ UNCHANGED <<disk, req, usedIds, elevenKey, geminiKey, mayFail, san, cln>>

\* combined_audio.export(output_path, format="mp3")
CombineExport ==
    /\ cmb.pc = "loop" /\ cmb.k = Len(cmb.paths)
    /\ disk' = WriteFile(disk, cmb.out, cmb.buf)
    /\ cmb' = [cmb EXCEPT !.pc = "done"]
    /\ UNCHANGED <<req, usedIds, elevenKey, geminiKey, mayFail, san, cln>>

NextCombine == CombineTurn \/ CombineExport

SpecCombine == InitCombine /\ [][NextCombine]_vars

(***************************************************************************)
(* C3: combine writes to output_path the concatenation, in the order of    *)
(* paths, of the contents of exactly the paths that exist; a missing path  *)
(* is skipped with a warning and nothing is raised, so [a, b] with b       *)
(* missing gives a's content alone.                                        *)
(***************************************************************************)
\* the concatenation, built from the last path backwards
RECURSIVE ConcatExisting(_, _)
ConcatExisting(paths, d) ==
    IF paths = <<>> THEN <<>>
    ELSE LET last == paths[Len(paths)]
         IN  ConcatExisting(SubSeq(paths, 1, Len(paths) - 1), d)
                 \o (IF last \in DOMAIN d THEN d[last] ELSE <<>>)

\* C3: the output is the concatenation of the existing paths' contents, in order
CombineSkipsMissing ==
    /\ cmb.pc = "loop" => ~Exists(disk, cmb.out)
    /\ cmb.pc = "done" =>
          /\ cmb.k = Len(cmb.paths)
          /\ Exists(disk, cmb.out)
          /\ disk[cmb.out] = ConcatExisting(cmb.paths, disk)
          /\ Range(cmb.warnings) = Range(cmb.paths) \ DOMAIN disk
          /\ (cmb.paths = <<PathA, PathB>> /\ Exists(disk, PathA)
                  /\ ~Exists(disk, PathB)
                => disk[cmb.out] = disk[PathA])
          /\ \A q \in ChunkFiles : Exists(disk, q) => disk[q] = ChunkContent(q)

\* reached: [a, b] with b missing has been combined into a's content
CombineSkipsMissingWitness ==
    /\ cmb.pc = "done"
    /\ cmb.paths = <<PathA, PathB>>
    /\ Exists(disk, PathA) /\ ~Exists(disk, PathB)
    /\ disk[cmb.out] = ChunkContent(PathA)
    /\ cmb.warnings = <<PathB>>

(***************************************************************************)
(* Two audio-producing requests at once, their steps interleaved in any    *)
(* order.  The titles are chosen to look like chunk names; every call      *)
(* succeeds.                                                               *)
(***************************************************************************)
TwoPresenters == <<Presenter("Ana", "v1"), Presenter("Luis", "v2")>>

ChunkLikeTitles ==
    {<<"1","_","c","h","u","n","k">>, <<"0","-","1","_","c","h","u","n","k">>}

SpokenScripts == {[k \in 1..n |-> [speaker |-> "Ana", line |-> "hi"]] : n \in 1..MaxLines}

ConcRequests ==
    {AudioFromScriptRequest(t, s, TwoPresenters, b) :
        t \in ChunkLikeTitles, s \in SpokenScripts, b \in BOOLEAN}
      \cup {PodcastRequest([NoReply EXCEPT !.title = t, !.script = s],
                           TwoPresenters, b) :
              t \in ChunkLikeTitles, s \in SpokenScripts, b \in BOOLEAN}

InitConc ==
    /\ disk = <<>>
    /\ usedIds = {}
    /\ elevenKey = TRUE
    /\ geminiKey = TRUE
    /\ mayFail = {}
    /\ san = NoSan
    /\ cmb = NoCmb
    /\ cln = NoCln
    /\ req \in [Reqs -> ConcRequests]

SpecConc == InitConc /\ [][NextSpoken]_vars

(***************************************************************************)
(* C8: for any interleaving of two audio-producing requests with freshly   *)
(* generated run identifiers, the chunk and final file names of one are    *)
(* disjoint from those of the other, so neither overwrites, reads,         *)
(* combines or deletes a file of the other.                                *)
(***************************************************************************)
\* the requests that have their run identifier
Running == {r \in PipelineReqs : req[r].podcast_id # <<>>}

\* the names the run of r writes, reads or deletes
NamesOf(r) ==
    {ChunkPath(req[r].podcast_id, k) : k \in 0..(Len(req[r].script) - 1)}
        \cup {FinalPath(req[r].title, req[r].podcast_id)}

\* the audio of the first n lines of r's script
RECURSIVE AudioOfLines(_, _)
AudioOfLines(r, n) ==
    IF n = 0 THEN <<>>
    ELSE AudioOfLines(r, n - 1)
            \o SynthAudio(req[r].script[n].line,
                          VoiceMapGet(req[r].presenters, req[r].script[n].speaker))

\* C8: the two runs' names are disjoint, and each run's files hold that run's
\* audio from their creation to their deletion by that run
RunFilesDisjoint ==
    /\ \A r1, r2 \in Running : r1 # r2 => NamesOf(r1) \cap NamesOf(r2) = {}
    /\ \A p \in DOMAIN disk : \E r \in Running : p \in NamesOf(r)
    /\ \A r \in Running :
          LET q == req[r]
              final == FinalPath(q.title, q.podcast_id)
          IN  \* r's chunks are there, with r's audio, until r deletes them
              /\ \A k \in 0..(Len(q.script) - 1) :
                     LET p == ChunkPath(q.podcast_id, k)
                     IN  /\ Exists(disk, p) <=> (k < q.i /\ q.pc \in {"loop", "cleanup"})
                         /\ Exists(disk, p) => disk[p] = SubSeq(AudioOfLines(r, k + 1), k + 1, k + 1)
              \* r's final file is there, with r's audio, until r deletes it
              /\ Exists(disk, final) <=>
                     \/ q.pc \in {"cleanup", "respond", "encoded"}
                     \/ q.pc = "done" /\ ~q.return_base64
              /\ Exists(disk, final) => disk[final] = AudioOfLines(r, Len(q.script))
              /\ Succeeded(r) /\ q.return_base64 =>
                     q.response.audio_base64 = B64(AudioOfLines(r, Len(q.script)))

\* reached: both requests are between their first chunk and their cleanup, one
\* with a title that spells the other's chunk name up to the identifier
RunFilesDisjointWitness ==
    /\ Running = Reqs
    /\ \A r \in Reqs : req[r].pc = "cleanup" /\ Len(req[r].audio_chunks_paths) = MaxLines
    /\ req[1].podcast_id = <<"0", "-", "1">>
    /\ req[2].title = <<"0","-","1","_","c","h","u","n","k">>
    /\ Cardinality(DOMAIN disk) = 2 * MaxLines + 2

(***************************************************************************)
(* The full pipeline next to its two halves: request 1 is an               *)
(* audio-from-script request for a title and a script, request 2 a full    *)
(* pipeline request whose script generator returns that title and script,  *)
(* with the same presenters and the same return_base64.  Every call        *)
(* succeeds.                                                               *)
(***************************************************************************)
InitPair ==
    /\ disk = <<>>
    /\ usedIds = {}
    /\ elevenKey = TRUE
    /\ geminiKey = TRUE
    /\ mayFail = {}
    /\ san = NoSan
    /\ cmb = NoCmb
    /\ cln = NoCln
    /\ \E t \in TitleSample, s \in Scripts, p \in PresenterLists, b \in BOOLEAN :
          req = [r \in Reqs |->
                    IF r = 1 THEN AudioFromScriptRequest(t, s, p, b)
                    ELSE PodcastRequest([NoReply EXCEPT !.title = t, !.script = s],
                                        p, b)]

SpecPair == InitPair /\ [][NextPipeline]_vars

(***************************************************************************)
(* C5: the full pipeline synthesizes the same lines, in the same order,    *)
(* with the same voices, and produces the same chunk set, final file and   *)
(* audio result as audio-from-script called with the generated title and   *)
(* script and the same presenters.                                         *)
(***************************************************************************)
\* the part of a file name that follows the directory and the run identifier,
\* or the part that precedes the identifier and the extension
ChunkSuffix(r, path) ==
    SubSeq(path, Len(FILES_DIR) + 1 + Len(req[r].podcast_id) + 1, Len(path))

FinalPrefix(r, path) ==
    SubSeq(path, 1, Len(path) - Len(req[r].podcast_id) - Len(Mp3Ext))

AudioResult(r) ==
    [code |-> req[r].response.code,
     keys |-> req[r].response.keys \cap {"status", "audio_file_url", "audio_base64"},
     audio_base64 |-> req[r].response.audio_base64,
     url_prefix |-> FinalPrefix(r, req[r].response.audio_file_url)]

SameRun(a, p) ==
    /\ req[a].synth_calls = req[p].synth_calls
    /\ [n \in 1..Len(req[a].audio_chunks_paths) |->
            ChunkSuffix(a, req[a].audio_chunks_paths[n])]
         = [n \in 1..Len(req[p].audio_chunks_paths) |->
            ChunkSuffix(p, req[p].audio_chunks_paths[n])]
    /\ FinalPrefix(a, req[a].final_audio_path) = FinalPrefix(p, req[p].final_audio_path)
    /\ Exists(disk, req[a].final_audio_path) <=> Exists(disk, req[p].final_audio_path)
    /\ (Exists(disk, req[a].final_audio_path) /\ Exists(disk, req[p].final_audio_path)
          => disk[req[a].final_audio_path] = disk[req[p].final_audio_path])
    /\ AudioResult(a) = AudioResult(p)

Paired ==
    /\ req[1].kind = "audio" /\ req[2].kind = "podcast"
    /\ req[1].pc = "done" /\ req[2].pc = "done"
    /\ req[2].reply.title = req[1].title /\ req[2].reply.script = req[1].script
    /\ req[2].presenters = req[1].presenters
    /\ req[2].return_base64 = req[1].return_base64

\* C5 as stated: the two runs agree for every script the generator returns
PipelineIsComposition == Paired => SameRun(1, 2)

\* what holds of the code instead of C5: the two runs agree for every script
\* whose lines all have a speaker and a dialogue that are not empty
PipelineIsCompositionOnSpokenLines ==
    Paired /\ (\A k \in 1..Len(req[1].script) :
                  req[1].script[k].speaker # "" /\ req[1].script[k].line # "")
        => SameRun(1, 2)

\* reached: both requests have answered for a script of two spoken lines, one
\* of them by an unknown speaker, and one chunk each was made
PipelineIsCompositionWitness ==
    /\ Paired
    /\ Len(req[1].script) = 2
    /\ \A k \in 1..2 : req[1].script[k].line # ""
    /\ req[1].script[1].speaker = "Zed"
    /\ Len(req[1].synth_calls) = 1 /\ Len(req[2].synth_calls) = 1
    /\ Succeeded(1) /\ Succeeded(2)

(***************************************************************************)
(* cleanup_files on its own, one turn of its loop per action: the list is  *)
(* any sequence of up to MaxPaths of three paths (repeats included), any   *)
(* subset of the three files is on disk, and os.remove raises OSError on   *)
(* any subset of the paths.  The specification runs these calls next to    *)
(* the requests of Init, whose handlers call cleanup_files themselves.     *)
(***************************************************************************)
InitCleanup ==
    /\ disk \in {[q \in present |-> ChunkContent(q)] : present \in SUBSET ChunkFiles}
    /\ cln \in {[paths |-> ps, failing |-> f, before |-> disk, k |-> 0,
                 attempted |-> <<>>, errors |-> <<>>, pc |-> "loop"] :
                    ps \in SeqsUpTo(ChunkFiles, MaxPaths), f \in SUBSET ChunkFiles}
    /\ req = [r \in Reqs |-> NoReq]
    /\ usedIds = {}
    /\ elevenKey = TRUE
    /\ geminiKey = TRUE
    /\ mayFail = {"remove"}
    /\ san = NoSan
    /\ cmb = NoCmb

\* for path in file_paths: one turn
CleanupTurn ==
    /\ cln.pc = "loop" /\ cln.k < Len(cln.paths)
    /\ LET st == CleanupVisit([disk |-> disk, attempted |-> cln.attempted,
                               errors |-> cln.errors],
                              cln.paths[cln.k + 1], cln.failing)
       IN  /\ disk' = st.disk
           /\ cln' = [cln EXCEPT !.k = @ + 1, !.attempted = st.attempted,
                                 !.errors = st.errors]
    /\ UNCHANGED <<req, usedIds, elevenKey, geminiKey, mayFail, san, cmb>>

\* the list is exhausted: cleanup_files returns None
CleanupReturn ==
    /\ cln.pc = "loop" /\ cln.k = Len(cln.paths)
    /\ cln' = [cln EXCEPT !.pc = "returned"]
    /\ UNCHANGED <<disk, req, usedIds, elevenKey, geminiKey, mayFail, san, cmb>>

NextCleanup == CleanupTurn \/ CleanupReturn

NextRequestOrCleanup == Next \/ NextCleanup

SpecCleanup == (Init \/ InitCleanup) /\ [][NextRequestOrCleanup]_vars

(***************************************************************************)
(* C11: cleanup_files is best-effort.  It calls os.remove on every path of *)
(* the list that exists when its turn comes; a removal that fails is       *)
(* logged, raises nothing and does not keep the later paths from being     *)
(* attempted; and a request whose chunk cleanup or final-file cleanup      *)
(* failed still answers with its success response.                         *)
(***************************************************************************)
\* the turns among the first k that call os.remove, described without the
\* loop: the path was on disk before the call, and no earlier turn removed it
AttemptTurns(paths, failing, before, k) ==
    {j \in 1..k :
        /\ Exists(before, paths[j])
        /\ \/ paths[j] \in failing
           \/ \A m \in 1..(j - 1) : paths[m] # paths[j]}

\* the paths of the turns T, in the order of the turns
PathsOfTurns(paths, T) ==
    [n \in 1..Cardinality(T) |->
        paths[CHOOSE j \in T : Cardinality({m \in T : m < j}) = n - 1]]

\* the call of cleanup_files in progress, after any number of turns
CleanupCallBestEffort ==
    cln.pc # "none" =>
        LET T    == AttemptTurns(cln.paths, cln.failing, cln.before, cln.k)
            Terr == {j \in T : cln.paths[j] \in cln.failing}
            seen == {cln.paths[j] : j \in 1..cln.k}
        IN  /\ cln.k \in 0..Len(cln.paths)
            /\ cln.pc = "returned" => cln.k = Len(cln.paths)
            /\ cln.attempted = PathsOfTurns(cln.paths, T)
            /\ Range(cln.attempted) = seen \cap DOMAIN cln.before
            /\ cln.errors = PathsOfTurns(cln.paths, Terr)
            /\ disk = RemoveFiles(cln.before, seen \ cln.failing)

\* a request one of whose cleanups failed
CleanupFailedRequestSucceeds(r) ==
    LET q == req[r]
        chunks == Range(q.audio_chunks_paths)
    IN  /\ (q.pc \in {"respond", "encoded"} \/ Succeeded(r)) =>
               \A p \in chunks :
                   Exists(disk, p) <=> <<"cleanup_error", p>> \in q.log
        /\ ~NoCleanupError(r) =>
               /\ q.pc \in {"respond", "encoded", "done"}
               /\ ~Failed(r)
               /\ q.pc = "done" =>
                     /\ Succeeded(r)
                     /\ "status" \in q.response.keys
                     /\ IF q.return_base64
                        THEN "audio_base64" \in q.response.keys
                        ELSE "audio_file_url" \in q.response.keys

\* C11: every existing path is attempted whatever failed before it, and a
\* failed cleanup leaves the request's success response as it is
CleanupBestEffort ==
    /\ CleanupCallBestEffort
    /\ \A r \in PipelineReqs : CleanupFailedRequestSucceeds(r)

\* reached: a two-chunk request for base64 has answered 200 although the
\* removal of its first chunk and of its final file failed; the second chunk
\* was removed all the same
CleanupBestEffortWitness ==
    \E r \in PipelineReqs :
        LET q == req[r]
        IN  /\ Succeeded(r) /\ q.return_base64
            /\ Len(q.audio_chunks_paths) = 2
            /\ q.log = {<<"cleanup_error", q.audio_chunks_paths[1]>>,
                        <<"cleanup_error", q.final_audio_path>>}
            /\ DOMAIN disk = {q.audio_chunks_paths[1], q.final_audio_path}
            /\ "audio_base64" \in q.response.keys

\* reached: a call over a failing path, a missing path and a removable path
CleanupMixedListReached ==
    /\ cln.pc = "returned"
    /\ cln.paths = <<PathA, PathB, PathC>>
    /\ cln.failing = {PathA}
    /\ DOMAIN cln.before = {PathA, PathC}
    /\ cln.attempted = <<PathA, PathC>>
    /\ cln.errors = <<PathA>>
    /\ DOMAIN disk = {PathA}

\* reached: a failing path listed twice is attempted twice
CleanupRepeatedPathReached ==
    /\ cln.pc = "returned"
    /\ cln.paths = <<PathA, PathA>>
    /\ cln.attempted = <<PathA, PathA>>
    /\ cln.errors = <<PathA, PathA>>

====
